---------------------------- MODULE Spec2Model ----------------------------
(***************************************************************************)
(* Model of coinbase.py: the CoinbaseTrade decision loop (Start, Trade,    *)
(* GetEMAs, Buy, Sell, Hold, Transaction) running against an exchange      *)
(* whose answers are chosen nondeterministically.                          *)
(*                                                                         *)
(* Numbers.  Prices and EMAs are Python floats in the code.  Here an EMA   *)
(* is an exact rational [num, den] with den > 0; the recurrence of EMA is  *)
(* carried out exactly.  Account balances are strings of decimals in the   *)
(* exchange's answer; here a USD balance is an integer number of 10^-6 USD *)
(* and a BTC balance an integer number of 10^-9 BTC, an order's funds an   *)
(* integer number of cents and an order's size an integer number of        *)
(* 10^-8 BTC.  Time is in whole seconds.                                   *)
(***************************************************************************)
EXTENDS Integers, Sequences, FiniteSets, TLC

VARIABLES
  pc,            \* position of the single thread of control
  now,           \* time.time()
  candles,       \* the exchange's candle list, newest first
  last_time,     \* Start's carried triple
  last_ema12,
  last_ema26,
  new_time,      \* Trade's locals
  new_ema12,
  new_ema26,
  response,      \* GetEMAs' answer of the candles endpoint, as last received
  params,        \* the order request built by Buy / Sell
  balance,       \* history: the balance Buy / Sell read for the order
  fill_info,     \* Transaction's report lines
  post_status,   \* response.ok of the answer to the order POST, while
                 \* Transaction has not returned: "none", "ok", "not_ok"
  block,         \* the content block logged in the current cycle
  trace,         \* history: calls and reports of the current cycle, in order
  cycle_prev,    \* history: the carried triple when Trade was called
  posts,         \* history: per candle time, the order POSTs the exchange
                 \* answered (0, 1, many)
  unreported,    \* history: an order was accepted and its success report
                 \* has not been emitted
  reported,      \* history: the newest-candle timestamp of the last candle
                 \* list received, and whether one was ever older than the
                 \* one received before it
  faults         \* history: exchange calls that raised, or answered with an
                 \* empty or a lagging candle list, so far

vars == <<pc, now, candles, last_time, last_ema12, last_ema26, new_time,
          new_ema12, new_ema26, response, params, balance, fill_info,
          post_status, block, trace, cycle_prev, posts, unreported, reported,
          faults>>

---------------------------------------------------------------------------
(* Program constants *)

DATA_DELAY == 300
Granularity == 360
FastPeriod == 12
SlowPeriod == 26
ErrorBackoff == 60
SettleDelay == 1
ResampleDelay == 1
WaitMargin == 1

(* Bounds of the model *)

MaxTime == 1800
MaxLen == 3
MaxJitter == 2
MaxFaults == 2
MaxCloses == 3
MaxClose == 4

---------------------------------------------------------------------------
(* Exact rationals standing for the floats *)

Rat(n) == [num |-> n, den |-> 1]

Sign(x) == IF x > 0 THEN 1 ELSE IF x < 0 THEN -1 ELSE 0

\* a - b
RatSub(a, b) == [num |-> a.num * b.den - b.num * a.den, den |-> a.den * b.den]

RatSign(a) == Sign(a.num)

\* the sign of a * b: the code compares the product with 0 only
RatMulSign(a, b) == RatSign(a) * RatSign(b)

RatGt(a, b) == RatSign(RatSub(a, b)) > 0

---------------------------------------------------------------------------
(* GetEMAs *)

\* EMA(N, prices) after the loop has run up to index i (1-based):
\* res = prices[i] * k + res * (1 - k) with k = 2 / (N + 1)
RECURSIVE EMAUpTo(_, _, _)
EMAUpTo(N, prices, i) ==
  IF i = 1 THEN Rat(prices[1])
  ELSE LET res == EMAUpTo(N, prices, i - 1)
       IN  [num |-> 2 * prices[i] * res.den + (N - 1) * res.num,
            den |-> (N + 1) * res.den]

EMA(N, prices) == EMAUpTo(N, prices, Len(prices))

\* [::-1]
Reverse(s) == [i \in 1..Len(s) |-> s[Len(s) + 1 - i]]

\* The answer of the candles endpoint: a transport failure, or a list of
\* candles, newest first.  A candle is [time, close]: entry[0] and entry[4].
\* The list is the exchange's own, or empty, or one that lags by a candle.
CandleResponses ==
  {[ok |-> FALSE, body |-> <<>>]}
    \cup {[ok |-> TRUE, body |-> b] :
            b \in {candles, <<>>}
                  \cup (IF Len(candles) >= 2 THEN {Tail(candles)} ELSE {})}

\* Mutant: an empty list gives a result, a zero timestamp and zero averages
GetEMAsEmptyDefault(resp) ==
  IF ~resp.ok
  THEN [raised |-> TRUE]
  ELSE IF resp.body = <<>>
  THEN [raised |-> FALSE, time |-> 0, ema12 |-> Rat(0), ema26 |-> Rat(0)]
  ELSE LET history == Reverse(resp.body)
           last_entry == history[Len(history)]
           prices == [i \in 1..Len(history) |-> history[i].close]
       IN  [raised |-> FALSE,
            time |-> last_entry.time,
            ema12 |-> EMA(FastPeriod, prices),
            ema26 |-> EMA(SlowPeriod, prices)]

\* Mutant: the list is taken as the exchange sends it, newest first
GetEMAsNoReverse(resp) ==
  IF ~resp.ok \/ resp.body = <<>>
  THEN [raised |-> TRUE]
  ELSE LET history == resp.body
           last_entry == history[Len(history)]
           prices == [i \in 1..Len(history) |-> history[i].close]
       IN  [raised |-> FALSE,
            time |-> last_entry.time,
            ema12 |-> EMA(FastPeriod, prices),
            ema26 |-> EMA(SlowPeriod, prices)]

\* GetEMAs on one answer; raised when requests.get raises or history[-1]
\* does not exist
GetEMAs(resp) ==
  IF ~resp.ok \/ resp.body = <<>>
  THEN [raised |-> TRUE]
  ELSE LET history == Reverse(resp.body)
           last_entry == history[Len(history)]
           prices == [i \in 1..Len(history) |-> history[i].close]
       IN  [raised |-> FALSE,
            time |-> last_entry.time,
            ema12 |-> EMA(FastPeriod, prices),
            ema26 |-> EMA(SlowPeriod, prices)]

---------------------------------------------------------------------------
(* The decision of Trade *)

\* Mutant: a touch of the two averages is not taken as a crossover
DecideStrict(l_ema12, l_ema26, n_ema12, n_ema26) ==
  IF RatMulSign(RatSub(n_ema26, n_ema12), RatSub(l_ema26, l_ema12)) < 0
  THEN IF RatGt(n_ema26, n_ema12) THEN "sell" ELSE "buy"
  ELSE "hold"

\* Mutant: equal new averages sell
DecideTieSells(l_ema12, l_ema26, n_ema12, n_ema26) ==
  IF RatMulSign(RatSub(n_ema26, n_ema12), RatSub(l_ema26, l_ema12)) <= 0
  THEN IF ~RatGt(n_ema12, n_ema26) THEN "sell" ELSE "buy"
  ELSE "hold"

Decide(l_ema12, l_ema26, n_ema12, n_ema26) ==
  IF RatMulSign(RatSub(n_ema26, n_ema12), RatSub(l_ema26, l_ema12)) <= 0
  THEN IF RatGt(n_ema26, n_ema12) THEN "sell" ELSE "buy"
  ELSE "hold"

---------------------------------------------------------------------------
(* Amounts *)

\* USD balances (10^-6 USD) and BTC balances (10^-9 BTC) the exchange may
\* report: 0, 0.29, 100.129456 and 0, 0.000000005, 0.123456789
UsdBalances == {0, 290000, 100129456}
BtcBalances == {0, 5, 123456789}

\* Balances b of UsdBalances whose double product float(b) * 100 lies below
\* the next integer although b * 100 is that integer (0.29 * 100 is
\* 28.999999999999996)
FloatBelow == {290000}

\* Balances b of BtcBalances ending in a 5 at the ninth decimal whose double
\* lies above the decimal (0.000000005 formats as 0.00000001)
FloatAbove == {5}

\* '%.2f' % (int(float(balance) * 100) / 100), in cents
FormatFunds(usd) ==
  (usd \div 10000) - (IF usd \in FloatBelow THEN 1 ELSE 0)

\* '%.8f' % float(balance), in 10^-8 BTC: rounds to the nearest
FormatSize(btc) ==
  LET q == btc \div 10
      r == btc % 10
  IN  IF r > 5 \/ (r = 5 /\ btc \in FloatAbove) THEN q + 1 ELSE q

---------------------------------------------------------------------------
(* State *)

NoEma == Rat(0)
NoParams == [side |-> "none"]
\* no answer received in this call of Trade
NoResponse == [ok |-> FALSE, body |-> <<>>]
NoBlock == [title |-> "", contents |-> <<>>]
T0 == 2 * Granularity
InitAges == {DATA_DELAY - 1, DATA_DELAY}
\* closing prices of the candles
Prices == {1, 2}
CandleTimes == {k * Granularity : k \in 0..(MaxTime \div Granularity)}

NewestTime == candles[1].time

\* The candle after the newest is published at the latest MaxJitter seconds
\* after the data delay: time does not pass that instant without it.
CanAdvanceTo(t) ==
  /\ t <= MaxTime
  /\ t <= NewestTime + Granularity + DATA_DELAY + MaxJitter

Bump(f, t) == [f EXCEPT ![t] = IF @ >= 2 THEN 2 ELSE @ + 1]

Init ==
  /\ pc = "start"
  /\ \E n \in 1..MaxLen :
       \E closes \in [1..n -> Prices] :
         candles = [i \in 1..n |->
                      [time |-> T0 - (i - 1) * Granularity,
                       close |-> closes[i]]]
  /\ \E a \in InitAges : now = T0 + a
  /\ last_time = 0
  /\ last_ema12 = NoEma
  /\ last_ema26 = NoEma
  /\ new_time = 0
  /\ new_ema12 = NoEma
  /\ new_ema26 = NoEma
  /\ response = NoResponse
  /\ params = NoParams
  /\ balance = 0
  /\ fill_info = <<>>
  /\ post_status = "none"
  /\ block = NoBlock
  /\ trace = <<>>
  /\ cycle_prev = <<0, NoEma, NoEma>>
  /\ posts = [t \in CandleTimes |-> 0]
  /\ unreported = FALSE
  /\ reported = [time |-> 0, decreased |-> FALSE]
  /\ faults = 0

---------------------------------------------------------------------------
(* Steps of Start, Trade, Buy, Sell, Hold and Transaction.  Every call of  *)
(* the exchange either raises or answers; a raise inside Trade goes to the *)
(* except clause of Start, a raise before the loop leaves Start.  At most  *)
(* MaxFaults calls raise or answer with an empty or lagging candle list.   *)

carried == <<last_time, last_ema12, last_ema26>>
sampled == <<new_time, new_ema12, new_ema26, response>>
order == <<params, balance, fill_info, post_status>>

\* lines 54-55: the two lines GetAccountInfo returns
AccountInfo == <<"USD", "BTC">>

\* lines 176-181
PrintContentBlock(title, contents) ==
  block' = [title |-> title, contents |-> contents]

\* The answers of the fills GET: requests.get raises; the answer is not ok;
\* the answer is ok with a list of fills; the answer is ok and reading it
\* raises (fills.json() at line 126, or fill.get at lines 127-129) after the
\* lines of the first `fills` fills have been added.
FillCounts == {0, 1}
FillOutcomes ==
  {[kind |-> "raise", fills |-> 0], [kind |-> "not_ok", fills |-> 0]}
    \cup {[kind |-> "ok", fills |-> n] : n \in FillCounts}
    \cup {[kind |-> "ok_raise", fills |-> n] : n \in FillCounts}

\* lines 123-124: the first line of the report
FillHeader ==
  <<IF params.side = "buy" THEN "Buy BTC with" ELSE "Sell BTC of">>

\* a call of the exchange that raises
Fault ==
  /\ faults < MaxFaults
  /\ faults' = faults + 1

\* the candle answers the fault budget leaves
CandleAnswers ==
  {resp \in CandleResponses :
     (resp.ok /\ resp.body = candles) \/ faults < MaxFaults}

CountFault(resp) ==
  faults' = IF resp.ok /\ resp.body = candles THEN faults ELSE faults + 1

\* the answer GetEMAs received, and the timestamp it read from it
Receive(resp, r) ==
  /\ response' = resp
  /\ reported' = IF r.raised THEN reported
                 ELSE [time |-> r.time,
                       decreased |-> reported.decreased
                                       \/ r.time < reported.time]

\* the locals of Trade, Buy / Sell and Transaction end with the call
DropLocals ==
  /\ new_time' = 0
  /\ new_ema12' = NoEma
  /\ new_ema26' = NoEma
  /\ response' = NoResponse
  /\ params' = NoParams
  /\ balance' = 0
  /\ fill_info' = <<>>
  /\ post_status' = "none"

\* line 153 and the assignment of lines 170-171
ReturnFromTrade ==
  /\ last_time' = new_time
  /\ last_ema12' = new_ema12
  /\ last_ema26' = new_ema26
  /\ DropLocals
  /\ pc' = "loop"

\* line 156: PrintContentBlock('ACCOUNT INFO', self.GetAccountInfo())
StartAccountInfo ==
  /\ pc = "start"
  /\ \/ /\ Fault
        /\ pc' = "crashed"
        /\ trace' = Append(trace, "get_accounts")
        /\ UNCHANGED block
     \/ /\ pc' = "start_emas"
        /\ trace' = trace \o <<"get_accounts", "block">>
        /\ PrintContentBlock("ACCOUNT INFO", AccountInfo)
        /\ UNCHANGED faults
  /\ UNCHANGED <<now, candles, carried, sampled, order, cycle_prev, reported,
                 posts, unreported>>

\* Mutant: when INIT backs last_time off, the carried averages are those
\* of the candles before the fresh one
StartBackoffRecomputes ==
  /\ pc = "start_emas"
  /\ \E resp \in CandleAnswers :
       LET r == GetEMAs(resp)
       IN  /\ CountFault(resp)
           /\ Receive(resp, r)
           /\ IF r.raised
              THEN /\ pc' = "crashed"
                   /\ UNCHANGED carried
              ELSE LET fresh == now - r.time < DATA_DELAY
                       b == IF fresh /\ Len(resp.body) >= 2
                            THEN GetEMAs([ok |-> TRUE,
                                          body |-> Tail(resp.body)])
                            ELSE r
                   IN  /\ pc' = "loop"
                       /\ last_time' = IF fresh THEN r.time - Granularity
                                                ELSE r.time
                       /\ last_ema12' = b.ema12
                       /\ last_ema26' = b.ema26
  /\ UNCHANGED <<now, candles, new_time, new_ema12, new_ema26, order,
                 block, trace, cycle_prev, posts, unreported>>

\* lines 157-162
StartGetEMAs ==
  /\ pc = "start_emas"
  /\ \E resp \in CandleAnswers :
       LET r == GetEMAs(resp)
       IN  /\ CountFault(resp)
           /\ Receive(resp, r)
           /\ IF r.raised
              THEN /\ pc' = "crashed"
                   /\ UNCHANGED carried
              ELSE /\ pc' = "loop"
                   /\ last_time' = IF now - r.time < DATA_DELAY
                                   THEN r.time - Granularity
                                   ELSE r.time
                   /\ last_ema12' = r.ema12
                   /\ last_ema26' = r.ema26
  /\ UNCHANGED <<now, candles, new_time, new_ema12, new_ema26, order,
                 block, trace, cycle_prev, posts, unreported>>

\* Mutant: the loop sleeps the remaining time without the extra second
WaitNoMargin ==
  /\ pc = "loop"
  /\ LET current == now
         remain_time == last_time + Granularity + DATA_DELAY - current
     IN  IF remain_time > 0
         THEN /\ CanAdvanceTo(now + remain_time)
              /\ now' = now + remain_time
         ELSE now' = now
  /\ pc' = "sample"
  /\ cycle_prev' = <<last_time, last_ema12, last_ema26>>
  /\ trace' = <<>>
  /\ block' = NoBlock
  /\ UNCHANGED <<candles, carried, sampled, order, posts,
                 unreported, reported, faults>>

\* lines 164-168 and the call of line 170
Wait ==
  /\ pc = "loop"
  /\ LET current == now
         remain_time == last_time + Granularity + DATA_DELAY - current
     IN  IF remain_time > 0
         THEN /\ CanAdvanceTo(now + remain_time + WaitMargin)
              /\ now' = now + remain_time + WaitMargin
         ELSE now' = now
  /\ pc' = "sample"
  /\ cycle_prev' = <<last_time, last_ema12, last_ema26>>
  /\ trace' = <<>>
  /\ block' = NoBlock
  /\ UNCHANGED <<candles, carried, sampled, order, posts,
                 unreported, reported, faults>>

\* Mutant: Trade samples again until the timestamp is above the carried one
SampleUntilNewer ==
  /\ pc = "sample"
  /\ \E resp \in CandleAnswers :
       LET r == GetEMAs(resp)
       IN  /\ CountFault(resp)
           /\ Receive(resp, r)
           /\ IF r.raised
              THEN /\ pc' = "except"
                   /\ UNCHANGED <<new_time, new_ema12, new_ema26>>
              ELSE /\ new_time' = r.time
                   /\ new_ema12' = r.ema12
                   /\ new_ema26' = r.ema26
                   /\ pc' = IF r.time <= last_time THEN "resample"
                                                   ELSE "decide"
  /\ UNCHANGED <<now, candles, carried, order, block, trace, cycle_prev,
                 posts, unreported>>

\* Mutant: Trade samples once and decides, whatever the timestamp
SampleOnce ==
  /\ pc = "sample"
  /\ \E resp \in CandleAnswers :
       LET r == GetEMAs(resp)
       IN  /\ CountFault(resp)
           /\ Receive(resp, r)
           /\ IF r.raised
              THEN /\ pc' = "except"
                   /\ UNCHANGED <<new_time, new_ema12, new_ema26>>
              ELSE /\ new_time' = r.time
                   /\ new_ema12' = r.ema12
                   /\ new_ema26' = r.ema26
                   /\ pc' = "decide"
  /\ UNCHANGED <<now, candles, carried, order, block, trace, cycle_prev,
                 posts, unreported>>

\* lines 139-140 and 142: GetEMAs and the test of the while
Sample ==
  /\ pc = "sample"
  /\ \E resp \in CandleAnswers :
       LET r == GetEMAs(resp)
       IN  /\ CountFault(resp)
           /\ Receive(resp, r)
           /\ IF r.raised
              THEN /\ pc' = "except"
                   /\ UNCHANGED <<new_time, new_ema12, new_ema26>>
              ELSE /\ new_time' = r.time
                   /\ new_ema12' = r.ema12
                   /\ new_ema26' = r.ema26
                   /\ pc' = IF r.time = last_time THEN "resample"
                                                  ELSE "decide"
  /\ UNCHANGED <<now, candles, carried, order, block, trace, cycle_prev,
                 posts, unreported>>

\* line 141
Resample ==
  /\ pc = "resample"
  /\ CanAdvanceTo(now + ResampleDelay)
  /\ now' = now + ResampleDelay
  /\ pc' = "sample"
  /\ UNCHANGED <<candles, carried, sampled, order, block, trace,
                 cycle_prev, reported, posts, unreported, faults>>

\* lines 143-152: the decision and the call of Sell, Buy or Hold
Dispatch ==
  /\ pc = "decide"
  /\ LET d == Decide(last_ema12, last_ema26, new_ema12, new_ema26)
     IN  /\ pc' = d
         /\ trace' = Append(trace, d)
  /\ UNCHANGED <<now, candles, carried, sampled, order, block, cycle_prev,
                 reported, posts, unreported, faults>>

\* Mutant: Sell returns without an order when there is nothing to sell
SellSkipsZero ==
  /\ pc = "sell"
  /\ trace' = Append(trace, "get_accounts")
  /\ \/ /\ Fault
        /\ pc' = "except"
        /\ UNCHANGED <<carried, sampled, params, balance, fill_info,
                       post_status>>
     \/ \E btc \in BtcBalances :
          IF btc = 0
          THEN /\ ReturnFromTrade
               /\ UNCHANGED faults
          ELSE /\ balance' = btc
               /\ params' = [type |-> "market", side |-> "sell",
                             product_id |-> "BTC-USD",
                             size |-> FormatSize(btc)]
               /\ pc' = "post"
               /\ UNCHANGED <<carried, sampled, fill_info, post_status,
                              faults>>
  /\ UNCHANGED <<now, candles, block, cycle_prev, reported, posts,
                 unreported>>

\* lines 79-90, up to the call of Transaction
Sell ==
  /\ pc = "sell"
  /\ trace' = Append(trace, "get_accounts")
  /\ \/ /\ Fault
        /\ pc' = "except"
        /\ UNCHANGED <<params, balance>>
     \/ \E btc \in BtcBalances :
          /\ balance' = btc
          /\ params' = [type |-> "market", side |-> "sell",
                        product_id |-> "BTC-USD", size |-> FormatSize(btc)]
          /\ pc' = "post"
          /\ UNCHANGED faults
  /\ UNCHANGED <<now, candles, carried, sampled, fill_info, post_status, block,
                 cycle_prev, reported, posts, unreported>>

\* lines 94-105, up to the call of Transaction
Buy ==
  /\ pc = "buy"
  /\ trace' = Append(trace, "get_accounts")
  /\ \/ /\ Fault
        /\ pc' = "except"
        /\ UNCHANGED <<params, balance>>
     \/ \E usd \in UsdBalances :
          /\ balance' = usd
          /\ params' = [type |-> "market", side |-> "buy",
                        product_id |-> "BTC-USD", funds |-> FormatFunds(usd)]
          /\ pc' = "post"
          /\ UNCHANGED faults
  /\ UNCHANGED <<now, candles, carried, sampled, fill_info, post_status, block,
                 cycle_prev, reported, posts, unreported>>

\* Mutant: a rejected order returns without the new sample being carried
PostRejectKeepsState ==
  /\ pc = "post"
  /\ \/ /\ Fault
        /\ pc' = "except"
        /\ trace' = Append(trace, "post")
        /\ UNCHANGED <<posts, unreported, carried, sampled, order>>
     \/ /\ trace' = trace \o <<"post", "error_log">>
        /\ posts' = Bump(posts, new_time)
        /\ DropLocals
        /\ pc' = "loop"
        /\ UNCHANGED carried
        /\ UNCHANGED <<unreported, faults>>
     \/ /\ Fault
        /\ pc' = "except"
        /\ trace' = Append(trace, "post")
        /\ posts' = Bump(posts, new_time)
        /\ post_status' = "not_ok"
        /\ UNCHANGED <<unreported, carried, sampled, params, balance,
                       fill_info>>
     \/ /\ pc' = "settle"
        /\ trace' = Append(trace, "post")
        /\ posts' = Bump(posts, new_time)
        /\ post_status' = "ok"
        /\ unreported' = TRUE
        /\ UNCHANGED <<carried, sampled, params, balance, fill_info,
                       faults>>
  /\ UNCHANGED <<now, candles, block, cycle_prev, reported>>

\* lines 109-116: the POST, and on an answer that is not ok the error log
\* and the return.  Four outcomes: requests.post raises; the answer is not
\* ok and its body decodes, the error is logged and Transaction returns;
\* the answer is not ok and response.json() raises at line 116, inside the
\* building of the error log, so that nothing is logged there; the answer
\* is ok.
Post ==
  /\ pc = "post"
  /\ \/ /\ Fault
        /\ pc' = "except"
        /\ trace' = Append(trace, "post")
        /\ UNCHANGED <<posts, unreported, carried, sampled, order>>
     \/ /\ trace' = trace \o <<"post", "error_log">>
        /\ posts' = Bump(posts, new_time)
        /\ ReturnFromTrade
        /\ UNCHANGED <<unreported, faults>>
     \/ /\ Fault
        /\ pc' = "except"
        /\ trace' = Append(trace, "post")
        /\ posts' = Bump(posts, new_time)
        /\ post_status' = "not_ok"
        /\ UNCHANGED <<unreported, carried, sampled, params, balance,
                       fill_info>>
     \/ /\ pc' = "settle"
        /\ trace' = Append(trace, "post")
        /\ posts' = Bump(posts, new_time)
        /\ post_status' = "ok"
        /\ unreported' = TRUE
        /\ UNCHANGED <<carried, sampled, params, balance, fill_info,
                       faults>>
  /\ UNCHANGED <<now, candles, block, cycle_prev, reported>>

\* lines 118-119: the sleep, and the order id read from the body of the
\* answer; response.json().get('id') raises when the body of the accepted
\* POST is not JSON or does not decode to an object
Settle ==
  /\ pc = "settle"
  /\ CanAdvanceTo(now + SettleDelay)
  /\ now' = now + SettleDelay
  /\ trace' = Append(trace, "sleep")
  /\ \/ /\ Fault
        /\ pc' = "except"
     \/ /\ pc' = "fills"
        /\ UNCHANGED faults
  /\ UNCHANGED <<candles, carried, sampled, order, block, cycle_prev,
                 reported, posts, unreported>>

\* lines 126-129: three lines for every fill
RECURSIVE FillLines(_)
FillLines(n) ==
  IF n = 0 THEN <<>>
  ELSE FillLines(n - 1) \o <<"Trade ID", "BTC pirce", "Fee">>

\* Mutant: without usable fills Transaction returns before its report
FillsNotOkReturns ==
  /\ pc = "fills"
  /\ trace' = Append(trace, "get_fills")
  /\ \E outcome \in FillOutcomes :
       CASE outcome.kind = "raise" ->
              /\ Fault
              /\ pc' = "except"
              /\ UNCHANGED <<carried, sampled, order>>
         [] outcome.kind = "ok_raise" ->
              /\ Fault
              /\ pc' = "except"
              /\ fill_info' = FillHeader \o FillLines(outcome.fills)
              /\ UNCHANGED <<carried, sampled, params, balance, post_status>>
         [] outcome.kind = "ok" /\ outcome.fills > 0 ->
              /\ fill_info' = FillHeader \o FillLines(outcome.fills)
              /\ pc' = "report"
              /\ UNCHANGED <<carried, sampled, params, balance,
                             post_status, faults>>
         [] OTHER ->
              /\ ReturnFromTrade
              /\ UNCHANGED faults
  /\ UNCHANGED <<now, candles, block, cycle_prev, reported, posts,
                 unreported>>

\* lines 120-129: the GET of the fills and the building of fill_info.  When
\* requests.get raises, fill_info is not yet bound; when the answer is ok
\* and reading it raises, fill_info holds the header and the lines of the
\* fills read so far.
Fills ==
  /\ pc = "fills"
  /\ trace' = Append(trace, "get_fills")
  /\ \E outcome \in FillOutcomes :
       CASE outcome.kind = "raise" ->
              /\ Fault
              /\ pc' = "except"
              /\ UNCHANGED fill_info
         [] outcome.kind = "ok_raise" ->
              /\ Fault
              /\ pc' = "except"
              /\ fill_info' = FillHeader \o FillLines(outcome.fills)
         [] outcome.kind = "ok" ->
              /\ fill_info' = FillHeader \o FillLines(outcome.fills)
              /\ pc' = "report"
              /\ UNCHANGED faults
         [] outcome.kind = "not_ok" ->
              /\ fill_info' = FillHeader
              /\ pc' = "report"
              /\ UNCHANGED faults
  /\ UNCHANGED <<now, candles, carried, sampled, params, balance,
                 post_status, block, cycle_prev, reported, posts,
                 unreported>>

\* line 130, and the return through Buy / Sell and Trade
Report ==
  /\ pc = "report"
  /\ \/ /\ Fault
        /\ pc' = "except"
        /\ trace' = Append(trace, "get_accounts")
        /\ UNCHANGED <<carried, sampled, order, block, unreported>>
     \/ /\ trace' = trace \o <<"get_accounts", "block">>
        /\ PrintContentBlock(IF params.side = "buy" THEN "BUY" ELSE "SELL",
                             fill_info \o AccountInfo)
        /\ unreported' = FALSE
        /\ ReturnFromTrade
        /\ UNCHANGED faults
  /\ UNCHANGED <<now, candles, cycle_prev, reported, posts>>

\* lines 134-135, and the return through Trade
Hold ==
  /\ pc = "hold"
  /\ \/ /\ Fault
        /\ pc' = "except"
        /\ trace' = Append(trace, "get_accounts")
        /\ UNCHANGED <<carried, sampled, order, block>>
     \/ /\ trace' = trace \o <<"get_accounts", "block">>
        /\ PrintContentBlock("HOLD", <<"Hold current balance">> \o AccountInfo)
        /\ ReturnFromTrade
        /\ UNCHANGED faults
  /\ UNCHANGED <<now, candles, cycle_prev, reported, posts, unreported>>

\* Mutant: the except clause keeps what the failed cycle had sampled
ExceptCommits ==
  /\ pc = "except"
  /\ CanAdvanceTo(now + ErrorBackoff)
  /\ trace' = Append(trace, "exception_log")
  /\ now' = now + ErrorBackoff
  /\ ReturnFromTrade
  /\ UNCHANGED <<candles, block, cycle_prev, reported, posts, unreported,
                 faults>>

\* Mutant: the except clause logs the exception and lets it end Start
ExceptExits ==
  /\ pc = "except"
  /\ trace' = Append(trace, "exception_log")
  /\ DropLocals
  /\ pc' = "crashed"
  /\ UNCHANGED <<now, candles, carried, block, cycle_prev, reported,
                 posts, unreported, faults>>

\* Mutant: the except clause backs off without logging the exception
ExceptUnlogged ==
  /\ pc = "except"
  /\ CanAdvanceTo(now + ErrorBackoff)
  /\ now' = now + ErrorBackoff
  /\ DropLocals
  /\ pc' = "loop"
  /\ UNCHANGED <<candles, carried, block, trace, cycle_prev, reported,
                 posts, unreported, faults>>

\* lines 172-174
Except ==
  /\ pc = "except"
  /\ CanAdvanceTo(now + ErrorBackoff)
  /\ trace' = Append(trace, "exception_log")
  /\ now' = now + ErrorBackoff
  /\ DropLocals
  /\ pc' = "loop"
  /\ UNCHANGED <<candles, carried, block, cycle_prev, reported, posts,
                 unreported, faults>>

\* The exchange publishes the candle of the next bucket, once it has begun
Publish ==
  /\ now >= NewestTime + Granularity
  /\ NewestTime + Granularity <= MaxTime
  /\ \E close \in Prices :
       candles' = SubSeq(<<[time |-> NewestTime + Granularity,
                            close |-> close]>> \o candles,
                         1, IF Len(candles) < MaxLen THEN Len(candles) + 1
                                                     ELSE MaxLen)
  /\ UNCHANGED <<pc, now, carried, sampled, order, block, trace,
                 cycle_prev, reported, posts, unreported, faults>>

Next ==
  \/ StartAccountInfo
  \/ StartGetEMAs
  \/ Wait
  \/ Sample
  \/ Resample
  \/ Dispatch
  \/ Sell
  \/ Buy
  \/ Post
  \/ Settle
  \/ Fills
  \/ Report
  \/ Hold
  \/ Except
  \/ Publish

Spec == Init /\ [][Next]_vars

\* The steps of the program: one thread of control, lines 155-174 and
\* what they call
Program ==
  \/ StartAccountInfo
  \/ StartGetEMAs
  \/ Wait
  \/ Sample
  \/ Resample
  \/ Dispatch
  \/ Sell
  \/ Buy
  \/ Post
  \/ Settle
  \/ Fills
  \/ Report
  \/ Hold
  \/ Except

\* The thread takes its next step whenever it has one (every call of the
\* exchange answers or raises, every sleep returns), and the exchange
\* publishes the next candle once its bucket has begun.
Fairness == WF_vars(Program) /\ WF_vars(Publish)

\* The runs that start with one candle on the exchange: the candles before
\* the newest have no part in whether the loop goes on
LiveInit == Init /\ Len(candles) = 1

LiveSpec == LiveInit /\ [][Next]_vars /\ Fairness

---------------------------------------------------------------------------
(* GetEMAs on its own: the exchange answers two calls with one candle     *)
(* list of up to MaxCloses candles with closes in 1..MaxClose, as the      *)
(* call of Start (line 157) and the call of Trade (line 139) when no       *)
(* candle was published in between.                                        *)

InitGetEMAs ==
  /\ pc = "call"
  /\ \E n \in 0..MaxCloses :
       \E closes \in [1..n -> 1..MaxClose] :
         candles = [i \in 1..n |->
                      [time |-> T0 - (i - 1) * Granularity,
                       close |-> closes[i]]]
  /\ now = T0 + DATA_DELAY
  /\ last_time = 0
  /\ last_ema12 = NoEma
  /\ last_ema26 = NoEma
  /\ new_time = 0
  /\ new_ema12 = NoEma
  /\ new_ema26 = NoEma
  /\ response = NoResponse
  /\ params = NoParams
  /\ balance = 0
  /\ fill_info = <<>>
  /\ post_status = "none"
  /\ block = NoBlock
  /\ trace = <<>>
  /\ cycle_prev = <<0, NoEma, NoEma>>
  /\ posts = [t \in CandleTimes |-> 0]
  /\ unreported = FALSE
  /\ reported = [time |-> 0, decreased |-> FALSE]
  /\ faults = 0

\* line 157: last_time, last_ema12, last_ema26 = self.GetEMAs()
CallGetEMAs ==
  /\ pc = "call"
  /\ LET resp == [ok |-> TRUE, body |-> candles]
         r == GetEMAs(resp)
     IN  /\ response' = resp
         /\ IF r.raised
            THEN /\ pc' = "raised"
                 /\ UNCHANGED carried
            ELSE /\ pc' = "called"
                 /\ last_time' = r.time
                 /\ last_ema12' = r.ema12
                 /\ last_ema26' = r.ema26
  /\ UNCHANGED <<now, candles, new_time, new_ema12, new_ema26, order, block,
                 trace, cycle_prev, posts, unreported, reported, faults>>

\* line 139: new_time, new_ema12, new_ema26 = self.GetEMAs()
CallGetEMAsAgain ==
  /\ pc = "called"
  /\ LET resp == [ok |-> TRUE, body |-> candles]
         r == GetEMAs(resp)
     IN  /\ response' = resp
         /\ new_time' = r.time
         /\ new_ema12' = r.ema12
         /\ new_ema26' = r.ema26
  /\ pc' = "compared"
  /\ UNCHANGED <<now, candles, carried, order, block, trace, cycle_prev,
                 posts, unreported, reported, faults>>

NextGetEMAs ==
  \/ CallGetEMAs
  \/ CallGetEMAsAgain

SpecGetEMAs == InitGetEMAs /\ [][NextGetEMAs]_vars

---------------------------------------------------------------------------
(* Properties *)

Count(ev, seq) == Cardinality({i \in DOMAIN seq : seq[i] = ev})

IsPrefix(s, t) == Len(s) <= Len(t) /\ \A i \in 1..Len(s) : s[i] = t[i]

\* comparisons of two averages by cross multiplication
Less(a, b) == a.num * b.den < b.num * a.den
Same(a, b) == a.num * b.den = b.num * a.den

InTrade == {"sample", "resample", "decide", "sell", "buy", "hold", "post",
            "settle", "fills", "report", "except"}
InOrder == {"post", "settle", "fills", "report"}

\* C1: at most one market action is issued per sampling interval, also
\* when calls of the exchange fail; in particular, for one newest-candle
\* timestamp t at most one order reaches the exchange.
C1_OneOrderPerSample == \A t \in CandleTimes : posts[t] <= 1

\* d_prev * d_curr <= 0, stated on the orders of the averages: the two
\* differences are not both positive and not both negative
Crossover ==
  ~ \/ (Less(last_ema12, last_ema26) /\ Less(new_ema12, new_ema26))
    \/ (Less(last_ema26, last_ema12) /\ Less(new_ema26, new_ema12))

ExpectedAction ==
  IF Crossover
  THEN IF Less(new_ema12, new_ema26) THEN "sell" ELSE "buy"
  ELSE "hold"

\* C2: Trade invokes Sell when d_prev * d_curr <= 0 and new_ema26 >
\* new_ema12, Buy when d_prev * d_curr <= 0 and new_ema26 <= new_ema12,
\* Hold when d_prev * d_curr > 0; a cycle that holds submits no order.
C2_DecisionRule ==
  /\ pc \in {"sell", "buy", "hold"} => pc = ExpectedAction
  /\ (trace # <<>> /\ trace[1] = "hold") =>
       (Count("post", trace) = 0 /\ pc \notin InOrder)

\* Sell has been invoked on a downward crossing: the fast average was above
\* the slow one and is now below it
C2_Witness ==
  /\ pc = "sell"
  /\ Less(last_ema26, last_ema12)
  /\ Less(new_ema12, new_ema26)

\* C3: an exception raised inside Trade does not end Start; it is logged
\* once, the loop sleeps 60 seconds, and the carried triple is the one the
\* failed cycle started with.
BackoffStep ==
  /\ (pc \in InTrade => pc' # "crashed")
  /\ (pc' = "except" =>
        /\ <<last_time', last_ema12', last_ema26'>> = cycle_prev'
        /\ Count("exception_log", trace') = 0)
  /\ (pc = "except" /\ pc' # "except" =>
        /\ pc' = "loop"
        /\ now' = now + 60
        /\ <<last_time', last_ema12', last_ema26'>> = cycle_prev
        /\ Count("exception_log", trace') = 1)

C3_BackoffKeepsState == [][BackoffStep]_vars

\* The loop is back at its top after a cycle that failed once its order
\* had been POSTed, with the carried triple of before the cycle
C3_Witness ==
  /\ pc = "loop"
  /\ trace # <<>>
  /\ trace[Len(trace)] = "exception_log"
  /\ Count("post", trace) = 1
  /\ <<last_time, last_ema12, last_ema26>> = cycle_prev

\* C4: after a Trade call that returns without raising (Buy, Sell or Hold,
\* also with the order rejected) the carried triple is the sampled triple.
ReturnStep ==
  (pc \in InTrade /\ pc # "except" /\ pc' = "loop") =>
    /\ last_time' = new_time
    /\ last_ema12' = new_ema12
    /\ last_ema26' = new_ema26
    /\ new_time # last_time

C4_ReturnAdvancesState == [][ReturnStep]_vars

\* Trade has returned after a rejected order and the carried time has moved
C4_Witness ==
  /\ pc = "loop"
  /\ trace # <<>>
  /\ trace[Len(trace)] = "error_log"
  /\ last_time # cycle_prev[1]

\* C5: when an order is POSTed, the cycle of every earlier order has
\* emitted its success report or its rejection error log: no accepted order
\* is still without its report.
C5_ReportBeforeNextOrder == pc = "post" => ~unreported

\* C6: when the answer to the order POST is not ok, Buy / Sell return
\* without raising and one error log is emitted; the cycle has one POST, no
\* fetch of the fills and no success report.
C6_RejectedOrder ==
  /\ post_status = "not_ok" =>
       (pc # "except" /\ Count("error_log", trace) = 1)
  /\ Count("error_log", trace) > 0 =>
       /\ pc = "loop"
       /\ \E side \in {"buy", "sell"} :
            trace = <<side, "get_accounts", "post", "error_log">>
       /\ block = NoBlock

\* C7: with d_prev = 0 or d_curr = 0 the decision is never Hold; with equal
\* new averages it is Buy, and the order built is a buy order.
C7_BoundaryIsCrossover ==
  /\ pc = "hold" =>
       (~Same(last_ema12, last_ema26) /\ ~Same(new_ema12, new_ema26))
  /\ (pc \in {"sell", "buy", "hold"} \cup InOrder
      /\ Same(new_ema12, new_ema26)) =>
       /\ trace[1] = "buy"
       /\ pc # "hold"
       /\ pc \in InOrder => params.side = "buy"

\* A second sample in a row has equal averages and, like the one before
\* it, has its buy order at the POST
C7_Witness ==
  /\ pc = "post"
  /\ params.side = "buy"
  /\ Same(new_ema12, new_ema26)
  /\ Same(last_ema12, last_ema26)
  /\ last_time # new_time
  /\ posts[last_time] >= 1

\* C8: the amount of an order is the balance rounded toward zero to the
\* exchange's precision (2 decimals of USD, 8 of BTC), so that it never
\* exceeds the balance: funds in cents against a balance in 10^-6 USD, a
\* size in 10^-8 BTC against a balance in 10^-9 BTC.
C8_AmountWithinBalance ==
  pc = "post" =>
    IF params.side = "sell"
    THEN params.size * 10 <= balance
    ELSE params.funds * 10000 <= balance

\* C9: a failure of an exchange call never ends the process, in INIT as in
\* the loop.
C9_NeverTerminates == pc # "crashed"

OrderSteps(side) ==
  <<side, "get_accounts", "post", "sleep", "get_fills", "get_accounts",
    "block">>

\* C10: on an accepted order the executor reads the balances, POSTs, sleeps
\* the settlement delay, fetches the fills, reads the balances and emits one
\* report, each once and in this order; the report is emitted also when the
\* fills are not ok or empty.
OrderTraceInOrder ==
  (trace # <<>> /\ trace[1] \in {"buy", "sell"}
   /\ Count("error_log", trace) = 0) =>
    LET steps == OrderSteps(trace[1])
    IN  \/ IsPrefix(trace, steps)
        \/ \E k \in 1..(Len(steps) - 1) :
             trace = SubSeq(steps, 1, k) \o <<"exception_log">>

ReportAfterAllSteps ==
  block.title \in {"BUY", "SELL"} =>
    /\ pc = "loop"
    /\ trace = OrderSteps(IF block.title = "BUY" THEN "buy" ELSE "sell")

OrderStep ==
  /\ (pc = "settle" /\ pc' # "settle") =>
       (pc' \in {"fills", "except"} /\ now' = now + 1)
  /\ (pc = "fills" /\ pc' \notin {"fills", "except"}) => pc' = "report"
  /\ (pc = "report" /\ pc' \notin {"report", "except"}) =>
       /\ pc' = "loop"
       /\ block' = [title |-> IF params.side = "buy" THEN "BUY" ELSE "SELL",
                    contents |-> fill_info \o <<"USD", "BTC">>]

C10_AcceptedOrderSteps ==
  /\ []OrderTraceInOrder
  /\ []ReportAfterAllSteps
  /\ [][OrderStep]_vars

\* A sell order was accepted and its report has no fill lines
C10_Witness ==
  /\ pc = "loop"
  /\ block.title = "SELL"
  /\ block.contents = <<"Sell BTC of", "USD", "BTC">>

\* C11: the crossover test is evaluated only with new_time # last_time;
\* while GetEMAs returns new_time = last_time, Trade sleeps one second and
\* samples again, and no Buy, Sell or Hold has been invoked.
DecidedOnNewSample ==
  pc \in {"decide", "sell", "buy", "hold"} \cup InOrder =>
    new_time # last_time

NothingInvokedWhileSampling == pc \in {"sample", "resample"} => trace = <<>>

ResampleStep ==
  /\ (pc = "sample" /\ pc' \notin {"sample", "except"}) =>
       pc' = IF new_time' = last_time THEN "resample" ELSE "decide"
  /\ (pc = "resample" /\ pc' # "resample") =>
       /\ pc' = "sample"
       /\ now' = now + 1
       /\ trace' = trace
       /\ <<last_time', last_ema12', last_ema26'>> =
            <<last_time, last_ema12, last_ema26>>

C11_DecisionOnlyOnNewSample ==
  /\ []DecidedOnNewSample
  /\ []NothingInvokedWhileSampling
  /\ [][ResampleStep]_vars

\* Trade got the carried timestamp again, has slept and is about to sample
\* once more
C11_Witness ==
  /\ pc = "sample"
  /\ new_time = last_time
  /\ response.ok
  /\ trace = <<>>

\* C12: every call of Trade from the loop starts at a clock time >=
\* last_time + granularity + DATA_DELAY for the carried last_time: if that
\* instant is in the future the loop has slept the remaining time plus one
\* second, otherwise it has not slept at all.
WaitStep ==
  /\ (pc = "loop" /\ pc' # "loop") =>
       LET due == last_time + Granularity + DATA_DELAY
       IN  /\ pc' = "sample"
           /\ last_time' = last_time
           /\ now' >= due
           /\ now' = IF now < due THEN due + 1 ELSE now
  /\ (pc' = "sample" /\ pc # "sample") => pc \in {"loop", "resample"}

C12_TradeStartsAfterDelay == [][WaitStep]_vars

\* Trade has been called without a wait: the instant had passed by more
\* than the one-second margin when the loop came round
C12_Witness ==
  /\ pc = "sample"
  /\ new_time = 0
  /\ now > last_time + Granularity + DATA_DELAY + WaitMargin

Reports == {"block", "error_log", "exception_log"}

\* C13: every cycle that ends has produced a report: the content block of
\* Buy, Sell or Hold, the error log of a rejected order, or the exception
\* log; a cycle ends in no other way than by the return to the loop.
CycleEndStep ==
  /\ (pc \in InTrade /\ pc' \notin InTrade) => pc' = "loop"
  /\ (pc \in InTrade /\ pc' = "loop") =>
       /\ \E i \in DOMAIN trace' : trace'[i] \in Reports
       /\ trace'[Len(trace')] = "block" =>
            block' # NoBlock /\ block'.title \in {"BUY", "SELL", "HOLD"}

C13_EveryCycleReports == [][CycleEndStep]_vars

\* A cycle that held has ended with its content block
C13_Witness ==
  /\ pc = "loop"
  /\ trace = <<"hold", "get_accounts", "block">>
  /\ block.title = "HOLD"
  /\ block.contents = <<"Hold current balance", "USD", "BTC">>

RECURSIVE Pow(_, _)
Pow(b, e) == IF e = 0 THEN 1 ELSE b * Pow(b, e - 1)

\* the closes of the exchange's list, oldest first
Closes == [i \in 1..Len(candles) |-> candles[Len(candles) + 1 - i].close]

\* sum over i in 2..m of 2 * c[i] * (N+1)^(i-2) * (N-1)^(n-i), n = Len(c)
RECURSIVE Weighted(_, _, _)
Weighted(N, c, m) ==
  IF m < 2 THEN 0
  ELSE Weighted(N, c, m - 1)
         + 2 * c[m] * Pow(N + 1, m - 2) * Pow(N - 1, Len(c) - m)

\* The recurrence ema[0] = c[0], ema[i] = c[i] * k + ema[i-1] * (1 - k),
\* k = 2 / (N + 1), unfolded over the whole window
Unfolded(N, c) ==
  [num |-> Pow(N - 1, Len(c) - 1) * c[1] + Weighted(N, c, Len(c)),
   den |-> Pow(N + 1, Len(c) - 1)]

StrictlyIncreasing(c) == \A i \in 1..(Len(c) - 1) : c[i] < c[i + 1]

\* C14: GetEMAs returns the timestamp of the newest candle and the two
\* averages of the recurrence over the closes taken oldest first, both
\* over the whole window; over strictly increasing closes (two or more)
\* the fast average is above the slow one; a second call on the same
\* candles returns the same triple; only an empty list gives no result.
C14_GetEMAs ==
  /\ pc \in {"called", "compared"} =>
       /\ last_time = candles[1].time
       /\ \A i \in 2..Len(candles) : candles[i].time < last_time
       /\ last_ema12 = Unfolded(FastPeriod, Closes)
       /\ last_ema26 = Unfolded(SlowPeriod, Closes)
       /\ (Len(Closes) >= 2 /\ StrictlyIncreasing(Closes)) =>
            Less(last_ema26, last_ema12)
  /\ pc = "compared" =>
       <<new_time, new_ema12, new_ema26>> =
         <<last_time, last_ema12, last_ema26>>
  /\ pc = "raised" => candles = <<>>

\* GetEMAs was called twice on three rising closes
C14_Witness ==
  /\ pc = "compared"
  /\ Closes = <<1, 3, 4>>
  /\ Less(new_ema26, new_ema12)
  /\ new_time = T0

\* the exchange answered the last call of GetEMAs with an empty list
EmptyAnswer == response.ok /\ response.body = <<>>

\* C15: on an empty candle list GetEMAs raises; in a cycle the failure goes
\* to the except clause of Start with no Buy, Sell or Hold invoked and the
\* carried triple unchanged, and after the backoff the loop is at its top.
EmptyFailsCycle ==
  /\ GetEMAs([ok |-> TRUE, body |-> <<>>]).raised
  /\ (EmptyAnswer /\ pc \in InTrade) =>
       /\ pc = "except"
       /\ trace = <<>>
       /\ <<last_time, last_ema12, last_ema26>> = cycle_prev

EmptyBackoffStep ==
  (EmptyAnswer /\ pc = "except" /\ pc' # "except") =>
    /\ pc' = "loop"
    /\ now' = now + ErrorBackoff
    /\ trace' = <<"exception_log">>
    /\ <<last_time', last_ema12', last_ema26'>> = cycle_prev

C15_EmptyCandlesBackOff ==
  /\ []EmptyFailsCycle
  /\ [][EmptyBackoffStep]_vars

\* A cycle's GetEMAs has failed on an empty list; the carried timestamp is
\* that of the exchange's newest candle
C15_Witness ==
  /\ pc = "except"
  /\ EmptyAnswer
  /\ trace = <<>>
  /\ last_time = NewestTime

\* the candles of a list, newest first, whose age at time t is DATA_DELAY
\* or more
Settled(list, t) == SelectSeq(list, LAMBDA c : t - c.time >= DATA_DELAY)

\* C16: INIT leaves the computed triple as carried state, with last_time
\* one granularity lower when the newest candle is younger than
\* DATA_DELAY; in both cases the carried state, against which the first
\* cycle compares, is that of the settled candles: the timestamp and the
\* averages GetEMAs gives without the candle younger than DATA_DELAY.
InitStep ==
  (pc = "start_emas" /\ pc' = "loop") =>
    LET r == GetEMAs(response')
        settled == Settled(response'.body, now)
        s == GetEMAs([ok |-> TRUE, body |-> settled])
    IN  /\ last_time' = IF now - r.time < DATA_DELAY
                        THEN r.time - Granularity
                        ELSE r.time
        /\ last_ema12' = r.ema12
        /\ last_ema26' = r.ema26
        /\ ~s.raised =>
             /\ last_time' = s.time
             /\ Same(last_ema12', s.ema12)
             /\ Same(last_ema26', s.ema26)

C16_InitAgainstSettled == [][InitStep]_vars

\* C17: a call of Buy or Sell that has read the balances builds a market
\* order for BTC-USD of its side, whatever the balance, and Transaction
\* POSTs it, once in the cycle; nothing skips the order on a zero balance.
OrderBuiltStep ==
  /\ (pc \in {"sell", "buy"} /\ pc' \notin {pc, "except"}) =>
       /\ pc' = "post"
       /\ params'.type = "market"
       /\ params'.side = pc
       /\ params'.product_id = "BTC-USD"
       /\ DOMAIN params' = {"type", "side", "product_id",
                            IF pc = "sell" THEN "size" ELSE "funds"}
  /\ (pc = "post" /\ pc' # "post") => Count("post", trace') = 1

OnePostInCycle ==
  /\ Count("post", trace) <= 1
  /\ pc \in {"settle", "fills", "report"} => Count("post", trace) = 1
  /\ pc = "post" => Count("post", trace) = 0

C17_OrderAlwaysSubmitted ==
  /\ []OnePostInCycle
  /\ [][OrderBuiltStep]_vars

\* A sell order of size 0 was POSTed on a zero BTC balance and accepted
C17_Witness ==
  /\ pc = "settle"
  /\ params.side = "sell"
  /\ balance = 0
  /\ params.size = 0
  /\ Count("post", trace) = 1

\* Trade is about to sample for the first time since INIT, and INIT backed
\* last_time off: the answer INIT received is still at hand
FirstSampleAfterBackoff ==
  /\ pc = "sample"
  /\ new_time = 0
  /\ response.ok
  /\ response.body # <<>>
  /\ last_time = response.body[1].time - Granularity

\* C19: in the first cycle after INIT backed last_time off, an answer with
\* the candles of INIT is taken as a new sample without waiting: new_time
\* differs from last_time, the new averages are the carried ones, and the
\* decision is Hold, or Buy when the two averages are equal.
FirstSampleStep ==
  (FirstSampleAfterBackoff /\ response' = response /\ pc' # "sample") =>
    /\ pc' = "decide"
    /\ now' = now
    /\ new_time' # last_time
    /\ new_time' = last_time + Granularity
    /\ new_ema12' = last_ema12
    /\ new_ema26' = last_ema26

SameAveragesStep ==
  (pc = "decide" /\ pc' # "decide"
   /\ new_ema12 = last_ema12 /\ new_ema26 = last_ema26) =>
    pc' = IF Same(new_ema12, new_ema26) THEN "buy" ELSE "hold"

C19_FirstCycleAfterBackoff ==
  /\ [][FirstSampleStep]_vars
  /\ [][SameAveragesStep]_vars

\* Buy has been invoked in the first cycle after a backed-off INIT, on the
\* candles of INIT with equal averages
C19_Witness ==
  /\ pc = "buy"
  /\ faults = 0
  /\ response.body = candles
  /\ new_time = last_time + Granularity
  /\ now = new_time + DATA_DELAY + WaitMargin
  /\ new_ema12 = last_ema12
  /\ new_ema26 = last_ema26
  /\ Same(new_ema12, new_ema26)
  /\ Len(candles) >= 2

\* C20: while no answer of the exchange has had a newest-candle timestamp
\* below that of the answer before it, a cycle that returns raises
\* last_time and a cycle that fails leaves it; Trade tests new_time #
\* last_time only, so that an answer with an older newest candle is
\* decided on as a new sample and the return carries last_time backwards.
MonotoneStep ==
  /\ (pc \in InTrade \ {"except"} /\ pc' = "loop") =>
       /\ last_time' = new_time
       /\ ~reported.decreased => last_time' > last_time
  /\ (pc \in InTrade /\ pc' = "except") => last_time' = last_time
  /\ (pc = "except" /\ pc' = "loop") => last_time' = last_time
  /\ (pc = "sample" /\ pc' \notin {"sample", "except"}
      /\ new_time' < last_time) =>
       /\ pc' = "decide"
       /\ reported'.decreased

C20_LastTimeFollowsExchange == [][MonotoneStep]_vars

\* A cycle has returned with its content block on an answer older than the
\* carried timestamp, and last_time is below what it was
C20_Witness ==
  /\ pc = "loop"
  /\ trace # <<>>
  /\ trace[Len(trace)] = "block"
  /\ block.title \in {"BUY", "SELL", "HOLD"}
  /\ last_time < cycle_prev[1]
  /\ reported.decreased

\* The clock of the model has room for the rest of a cycle: the wait for
\* the next candle, the resampling on lagging answers, the settlement
\* delay and an error backoff
TimeLeft ==
  NewestTime + Granularity + DATA_DELAY + MaxJitter
    + MaxFaults * ResampleDelay + SettleDelay + ErrorBackoff <= MaxTime

\* C18: once in the loop, every cycle, successful or failed, comes to its
\* end, and from the top of the loop Trade is called and samples again;
\* the resampling on an unchanged timestamp ends when the exchange
\* publishes a candle.  Stated for the states from which the clock of the
\* model has room for the rest of the cycle.
C18_LoopKeepsSampling ==
  /\ (pc \in InTrade /\ TimeLeft) ~> (pc = "loop")
  /\ (pc = "loop" /\ TimeLeft) ~> (pc = "sample")
  /\ (pc = "resample" /\ TimeLeft) ~> (pc \in {"decide", "except"})

\* Trade has been called again after cycles in which calls of the exchange
\* failed
C18_Witness ==
  /\ pc = "sample"
  /\ new_time = 0
  /\ response = NoResponse
  /\ faults = MaxFaults
  /\ TimeLeft

===========================================================================
